---- MODULE Spec2Model ----
(***************************************************************************)
(* AutoGGUF (src/main.py): an interactive pipeline that asks for a model   *)
(* directory, an output prefix and a selection of quantization types, runs *)
(* the external converter once and the external quantizer once per         *)
(* selected type, and prints a summary.                                    *)
(*                                                                         *)
(* Strings are sequences of one-character strings, so that strip, upper,   *)
(* lower, split, rstrip("/") and basename are computed as Python computes  *)
(* them.  The external tools are opaque: each invocation returns an exit   *)
(* code and may or may not write its output file.                          *)
(***************************************************************************)
EXTENDS Naturals, Sequences, FiniteSets

(* ------------------------------ bounds --------------------------------- *)

\* longest comma-separated list the user types at the "Types:" prompt
MaxEntries == 3

\* most quantizer invocations of one run that deviate from "exit 0, file written"
MaxFaults == 2

(* --------------------------- string helpers ---------------------------- *)

LowerLetters == <<"a","b","c","d","e","f","g","h","i","j","k","l","m",
                  "n","o","p","q","r","s","t","u","v","w","x","y","z">>

UpperLetters == <<"A","B","C","D","E","F","G","H","I","J","K","L","M",
                  "N","O","P","Q","R","S","T","U","V","W","X","Y","Z">>

IsSpace(c) == c \in {" ", "\t", "\n"}

UpperChar(c) ==
  IF \E i \in 1..Len(LowerLetters) : LowerLetters[i] = c
  THEN UpperLetters[CHOOSE i \in 1..Len(LowerLetters) : LowerLetters[i] = c]
  ELSE c

LowerChar(c) ==
  IF \E i \in 1..Len(UpperLetters) : UpperLetters[i] = c
  THEN LowerLetters[CHOOSE i \in 1..Len(UpperLetters) : UpperLetters[i] = c]
  ELSE c

\* str.upper()
Upper(s) == [i \in 1..Len(s) |-> UpperChar(s[i])]

\* str.lower()
Lower(s) == [i \in 1..Len(s) |-> LowerChar(s[i])]

RECURSIVE LStrip(_)
LStrip(s) == IF s # <<>> /\ IsSpace(Head(s)) THEN LStrip(Tail(s)) ELSE s

RECURSIVE RStrip(_)
RStrip(s) ==
  IF s # <<>> /\ IsSpace(s[Len(s)]) THEN RStrip(SubSeq(s, 1, Len(s) - 1)) ELSE s

\* str.strip()
Strip(s) == RStrip(LStrip(s))

\* str.rstrip("/")
RECURSIVE RStripSlash(_)
RStripSlash(s) ==
  IF s # <<>> /\ s[Len(s)] = "/" THEN RStripSlash(SubSeq(s, 1, Len(s) - 1)) ELSE s

\* os.path.basename: what follows the last "/"
RECURSIVE Basename(_)
Basename(p) ==
  IF \E i \in 1..Len(p) : p[i] = "/"
  THEN Basename(SubSeq(p, (CHOOSE i \in 1..Len(p) : p[i] = "/") + 1, Len(p)))
  ELSE p

\* str.split(","): the pieces between commas, empty pieces kept
RECURSIVE Split(_)
Split(s) ==
  IF \E i \in 1..Len(s) : s[i] = ","
  THEN LET k == CHOOSE i \in 1..Len(s) :
                    s[i] = "," /\ \A j \in 1..(i - 1) : s[j] # ","
       IN  <<SubSeq(s, 1, k - 1)>> \o Split(SubSeq(s, k + 1, Len(s)))
  ELSE <<s>>

\* ",".join(parts), used to build what the user types
RECURSIVE Join(_)
Join(parts) ==
  IF parts = <<>> THEN <<>>
  ELSE IF Len(parts) = 1 THEN parts[1]
  ELSE parts[1] \o <<",">> \o Join(Tail(parts))

Range(s) == {s[i] : i \in 1..Len(s)}

(* ------------------------- program constants --------------------------- *)

QUANTIZATION_TYPES ==
  << <<"Q","2","_","K">>,
     <<"Q","3","_","K","_","S">>,
     <<"Q","3","_","K","_","M">>,
     <<"Q","3","_","K","_","L">>,
     <<"Q","4","_","K","_","S">>,
     <<"Q","4","_","0">>,
     <<"Q","4","_","1">>,
     <<"Q","4","_","K","_","M">>,
     <<"Q","5","_","K","_","S">>,
     <<"Q","5","_","K","_","M">>,
     <<"Q","6","_","K">>,
     <<"Q","8","_","0">> >>

convert_script == "./llama/convert_hf_to_gguf.py"

quantizer == "./llama/bin/llama-quantize"

\* f"{output_name}-f16.gguf"
F16File(name) == name \o <<"-","f","1","6",".","g","g","u","f">>

\* f"{output_name}-{quant_type}.gguf"
OutputFile(name, quant) == name \o <<"-">> \o quant \o <<".","g","g","u","f">>

(* ------------------------------ inputs --------------------------------- *)

\* answers to "Enter the model directory path"
PathAnswers == { <<>>, <<" ">>, <<"m","/">>, <<" ","x"," ">> }

\* answers to "Continue anyway? (y/n)"
ConfirmAnswers == { <<"Y"," ">>, <<"n">>, <<>> }

\* answers to "Enter output filename prefix"
NameAnswers == { <<>>, <<" ","o">> }

\* answers to "Select option (1-2, or press Enter for default)"
ModeAnswers == { <<>>, <<"1"," ">>, <<" ","2">>, <<"3">> }

\* the entries a typed list is made of: exact, lower case with blanks,
\* unrecognized, empty
EntryTokens == { <<"Q","4","_","0">>, <<" ","q","8","_","0">>, <<"Q","9">>, <<>> }

EntryLists == UNION { [1..n -> EntryTokens] : n \in 0..MaxEntries }

\* answers to "Types:"
TypesAnswers == { Join(l) : l \in EntryLists } \cup { <<" ">> }

\* what one run of an external tool does: its exit code, and whether it
\* writes its output file
Outcomes == [returncode : {0, 1}, writes : BOOLEAN]

Nominal(o) == o.returncode = 0 /\ o.writes

(* ------------------------------- state --------------------------------- *)

VARIABLES
  pc,                \* where main is: the prompt or step that runs next
  running,           \* FALSE once the process has exited
  exit_status,       \* the process's exit status (0 unless sys.exit(1) ran)
  error,             \* the exception that ended the run, "none" if none
  installed,         \* which of the two llama.cpp tools exist on disk
  cwd,               \* paths that exist in the working directory
  dest_kind,         \* what exists at <output-name>-GGUF: "absent", "dir", "file"
  dest_files,        \* the files inside <output-name>-GGUF
  model_path,        \* get_user_input's model_path (<<>> until assigned)
  path_existed,      \* what os.path.exists(model_path) answered at line 57
  confirm,           \* get_user_input's confirm (<<>> until assigned)
  output_name,       \* get_user_input's output_name (<<>> until assigned)
  selected_quants,   \* get_user_input's selected_quants (<<>> until assigned)
  last_prompt,       \* the prompt answered last
  last_answer,       \* the answer given to it, as typed
  f16_file,          \* main's f16_file (<<>> until assigned)
  conv,              \* the converter invocations: exit code, output existed after
  runs,              \* the quantizer invocations: type, exit code, output existed after
  successful_quants, \* quantize_model's successful_quants
  failed_quants,     \* quantize_model's failed_quants
  summary,           \* what the summary printed at lines 213-224
  faults             \* quantizer invocations so far that were not nominal

vars == << pc, running, exit_status, error, installed, cwd, dest_kind, dest_files,
           model_path, path_existed, confirm, output_name, selected_quants,
           last_prompt, last_answer, f16_file, conv, runs, successful_quants,
           failed_quants, summary, faults >>

env == << installed, dest_kind, dest_files >>

collected == << model_path, path_existed, confirm, output_name, selected_quants >>

asked == << last_prompt, last_answer >>

quantized == << runs, successful_quants, failed_quants, faults >>

process == << running, exit_status, error >>

PathPcs == {"ask_path", "ask_confirm"}

CollectorPcs == {"ask_path", "ask_confirm", "ask_name", "ask_mode", "ask_types"}

\* os.path.exists of a typed path: a directory is found with or without a
\* trailing separator
PathExists(p) == RStripSlash(p) \in cwd

Init ==
  /\ pc = "ask_path"
  /\ running = TRUE
  /\ exit_status = 0
  /\ error = "none"
  /\ installed \in SUBSET {convert_script, quantizer}
  /\ cwd = { <<"m">> }
  /\ dest_kind \in {"absent", "file"}
  /\ dest_files = {}
  /\ model_path = <<>>
  /\ path_existed = FALSE
  /\ confirm = <<>>
  /\ output_name = <<>>
  /\ selected_quants = <<>>
  /\ last_prompt = "none"
  /\ last_answer = <<>>
  /\ f16_file = <<>>
  /\ conv = <<>>
  /\ runs = <<>>
  /\ successful_quants = <<>>
  /\ failed_quants = <<>>
  /\ summary = [shown |-> FALSE, succeeded |-> <<>>, failed |-> <<>>]
  /\ faults = 0

(* ------------------------- get_user_input ------------------------------ *)

\* line 52: if not model_path
PathIsEmpty(path) == path = <<>>

\* a confirmation that takes anything but "n" for a yes
ConfirmAccepted_NotN(answer) == answer # <<"n">>

\* line 60: the negation of "if confirm != 'y': continue"
ConfirmAccepted(answer) == answer = <<"y">>

\* line 88: if not choice or choice == "1"
ChoiceIsAll(choice) == choice = <<>> \/ choice = <<"1">>

\* line 109: [t.strip().upper() for t in custom_input.split(",")]
CustomTypes(custom_input) ==
  LET parts == Split(custom_input)
  IN  [i \in 1..Len(parts) |-> Upper(Strip(parts[i]))]

\* a validation that looks at the first entry only
InvalidTypes_FirstOnly(custom_types) ==
  IF custom_types[1] \notin Range(QUANTIZATION_TYPES)
  THEN <<custom_types[1]>> ELSE <<>>

\* line 112: [t for t in custom_types if t not in QUANTIZATION_TYPES]
InvalidTypes(custom_types) ==
  SelectSeq(custom_types, LAMBDA t : t \notin Range(QUANTIZATION_TYPES))

\* lines 49-63: one pass of the model-path loop up to its input()
AskPath(answer) ==
  /\ pc = "ask_path" /\ running
  /\ model_path' = Strip(answer)
  /\ last_prompt' = "path" /\ last_answer' = answer
  /\ IF PathIsEmpty(Strip(answer))
     THEN pc' = "ask_path" /\ UNCHANGED path_existed
     ELSE /\ path_existed' = PathExists(Strip(answer))
          /\ pc' = IF PathExists(Strip(answer)) THEN "ask_name" ELSE "ask_confirm"
  /\ UNCHANGED << process, env, cwd, confirm, output_name, selected_quants,
                  f16_file, conv, quantized, summary >>

\* lines 59-61: the "Continue anyway?" prompt
AskConfirm(answer) ==
  /\ pc = "ask_confirm" /\ running
  /\ confirm' = Lower(Strip(answer))
  /\ last_prompt' = "confirm" /\ last_answer' = answer
  /\ pc' = IF ConfirmAccepted(Lower(Strip(answer))) THEN "ask_name" ELSE "ask_path"
  /\ UNCHANGED << process, env, cwd, model_path, path_existed, output_name,
                  selected_quants, f16_file, conv, quantized, summary >>

\* lines 66-71: the output prefix, defaulting to the model directory's name
AskName(answer) ==
  /\ pc = "ask_name" /\ running
  /\ LET model_name == Basename(RStripSlash(model_path))
     IN  output_name' = IF Strip(answer) = <<>> THEN model_name ELSE Strip(answer)
  /\ last_prompt' = "name" /\ last_answer' = answer
  /\ pc' = "ask_mode"
  /\ UNCHANGED << process, env, cwd, model_path, path_existed, confirm,
                  selected_quants, f16_file, conv, quantized, summary >>

\* lines 83-94, 121-122: the mode prompt
AskMode(answer) ==
  /\ pc = "ask_mode" /\ running
  /\ last_prompt' = "mode" /\ last_answer' = answer
  /\ LET choice == Strip(answer)
     IN  IF ChoiceIsAll(choice)
         THEN selected_quants' = QUANTIZATION_TYPES /\ pc' = "convert"
         ELSE IF choice = <<"2">>
         THEN UNCHANGED selected_quants /\ pc' = "ask_types"
         ELSE UNCHANGED selected_quants /\ pc' = "ask_mode"
  /\ UNCHANGED << process, env, cwd, model_path, path_existed, confirm,
                  output_name, f16_file, conv, quantized, summary >>

\* lines 102-120: the typed list of mode 2
AskTypes(answer) ==
  /\ pc = "ask_types" /\ running
  /\ last_prompt' = "types" /\ last_answer' = answer
  /\ LET custom_input == Strip(answer)
         custom_types == CustomTypes(custom_input)
     IN  IF custom_input = <<>>
         THEN selected_quants' = QUANTIZATION_TYPES /\ pc' = "convert"
         ELSE IF InvalidTypes(custom_types) # <<>>
         THEN UNCHANGED selected_quants /\ pc' = "ask_mode"
         ELSE selected_quants' = custom_types /\ pc' = "convert"
  /\ UNCHANGED << process, env, cwd, model_path, path_existed, confirm,
                  output_name, f16_file, conv, quantized, summary >>

(* --------------------------- run_command ------------------------------- *)

\* lines 30-39: True iff the child exits with status zero
run_command(o) == o.returncode = 0

(* -------------------------- convert_to_gguf ---------------------------- *)

\* a conversion check that trusts the exit code alone
ConvertSucceeded_ExitOnly(success, exists) == success

\* line 146: if success and os.path.exists(f16_file)
ConvertSucceeded(success, exists) == success /\ exists

\* lines 135-138, 198-200: no conversion script, so the conversion fails and
\* main exits with status 1
ConvertScriptMissing ==
  /\ pc = "convert" /\ running
  /\ convert_script \notin installed
  /\ running' = FALSE /\ exit_status' = 1 /\ error' = "SystemExit"
  /\ UNCHANGED << pc, env, cwd, collected, asked, f16_file, conv, quantized, summary >>

\* lines 140-150, 198-204: the converter runs once; main goes on only with
\* the file name convert_to_gguf returns
ConvertRun(o) ==
  /\ pc = "convert" /\ running
  /\ convert_script \in installed
  /\ LET file   == F16File(output_name)
         after  == IF o.writes THEN cwd \cup {file} ELSE cwd
         exists == file \in after
     IN  /\ cwd' = after
         /\ conv' = Append(conv, [returncode |-> o.returncode, exists |-> exists])
         /\ IF ConvertSucceeded(run_command(o), exists)
            THEN /\ f16_file' = file
                 /\ pc' = "quantize"
                 /\ UNCHANGED process
            ELSE /\ running' = FALSE /\ exit_status' = 1 /\ error' = "SystemExit"
                 /\ UNCHANGED << pc, f16_file >>
  /\ UNCHANGED << env, collected, asked, quantized, summary >>

(* --------------------------- quantize_model ---------------------------- *)

\* a quantization check that trusts the exit code alone
QuantSucceeded_ExitOnly(success, exists) == success

\* line 172: if success and os.path.exists(output_file)
QuantSucceeded(success, exists) == success /\ exists

\* line 166: the entry the loop handles after n invocations, every entry of
\* the list in turn
NextEntry(n) == n + 1

\* lines 158-161, 208-210: no quantizer, so quantize_model returns False,
\* which main cannot unpack into two lists
QuantizerMissing ==
  /\ pc = "quantize" /\ running
  /\ quantizer \notin installed
  /\ running' = FALSE /\ exit_status' = 1 /\ error' = "TypeError"
  /\ UNCHANGED << pc, env, cwd, collected, asked, f16_file, conv, quantized, summary >>

\* lines 166-180: one pass of the loop over quant_types; after the last
\* entry quantize_model returns the two lists
QuantizeOne(o) ==
  /\ pc = "quantize" /\ running
  /\ quantizer \in installed
  /\ NextEntry(Len(runs)) \in 1..Len(selected_quants)
  /\ Nominal(o) \/ faults < MaxFaults
  /\ faults' = IF Nominal(o) THEN faults ELSE faults + 1
  /\ LET quant_type  == selected_quants[NextEntry(Len(runs))]
         output_file == OutputFile(output_name, quant_type)
         after       == IF o.writes THEN cwd \cup {output_file} ELSE cwd
         exists      == output_file \in after
     IN  /\ cwd' = after
         /\ runs' = Append(runs, [quant |-> quant_type,
                                  returncode |-> o.returncode,
                                  exists |-> exists])
         /\ IF QuantSucceeded(run_command(o), exists)
            THEN /\ successful_quants' = Append(successful_quants, quant_type)
                 /\ UNCHANGED failed_quants
            ELSE /\ failed_quants' = Append(failed_quants, quant_type)
                 /\ UNCHANGED successful_quants
         /\ pc' = IF NextEntry(Len(runs)) >= Len(selected_quants)
                  THEN "summary" ELSE "quantize"
  /\ UNCHANGED << process, env, collected, asked, f16_file, conv, summary >>

(* -------------------------------- main --------------------------------- *)

\* lines 212-228, 296-298: the summary is printed, then line 228 reads
\* gguf_folder, which line 232 assigns only later: UnboundLocalError, caught
\* by the outer handler, which exits with status 1.  Lines 230-291 (the
\* directory, the moves, the cleanup prompt) are never reached.
Summary ==
  /\ pc = "summary" /\ running
  /\ summary' = [shown |-> TRUE, succeeded |-> successful_quants,
                 failed |-> failed_quants]
  /\ running' = FALSE /\ exit_status' = 1 /\ error' = "UnboundLocalError"
  /\ UNCHANGED << pc, env, cwd, collected, asked, f16_file, conv, quantized >>

\* lines 293-295: Ctrl-C while main waits on a prompt or on a child process
Interrupt ==
  /\ running
  /\ running' = FALSE /\ exit_status' = 1 /\ error' = "KeyboardInterrupt"
  /\ UNCHANGED << pc, env, cwd, collected, asked, f16_file, conv, quantized, summary >>

Next ==
  \/ \E a \in PathAnswers : AskPath(a)
  \/ \E a \in ConfirmAnswers : AskConfirm(a)
  \/ \E a \in NameAnswers : AskName(a)
  \/ \E a \in ModeAnswers : AskMode(a)
  \/ \E a \in TypesAnswers : AskTypes(a)
  \/ ConvertScriptMissing
  \/ \E o \in Outcomes : ConvertRun(o)
  \/ QuantizerMissing
  \/ \E o \in Outcomes : QuantizeOne(o)
  \/ Summary
  \/ Interrupt

Spec == Init /\ [][Next]_vars

(* ------------------------------ properties ----------------------------- *)

TypeSet == Range(QUANTIZATION_TYPES)

\* the run ended, and not by Ctrl-C
Ended == ~running /\ error # "KeyboardInterrupt"

\* the conversion step returned a file name
Converted == f16_file # <<>>

\* a typed list with an entry that, trimmed and upper-cased, is no
\* recognized type (an answer that is blank is no list: line 104)
HasUnrecognized(raw) ==
  /\ Strip(raw) # <<>>
  /\ \E e \in Range(Split(Strip(raw))) : Upper(Strip(e)) \notin TypeSet

HasRecognized(raw) ==
  \E e \in Range(Split(Strip(raw))) : Upper(Strip(e)) \in TypeSet

\* an invocation that exited zero and left its output file on disk
Succeeded(r) == r.returncode = 0 /\ r.exists

NotSucceeded(r) == ~Succeeded(r)

QuantsOf(rs) == [i \in 1..Len(rs) |-> rs[i].quant]

\* C1: every run whose conversion succeeded, whose quantizer ran over the
\* selection and which no interrupt ended, completes with exit status 0 and a
\* summary that reports exactly the succeeded and the failed profiles.
C1_ExitZeroAfterConversion ==
  (Ended /\ Converted /\ quantizer \in installed)
    => /\ exit_status = 0
       /\ summary.shown
       /\ summary.succeeded = successful_quants
       /\ summary.failed = failed_quants

\* C2: after a run whose conversion succeeded and in which a profile
\* succeeded (nothing at the destination path in the way), the destination
\* directory exists and holds exactly the succeeded profiles' files and the
\* f16 file, and no moved file is left in the working directory.
C2_DestinationHoldsResults ==
  (Ended /\ Converted /\ successful_quants # <<>> /\ dest_kind # "file")
    => LET quantFiles == { OutputFile(output_name, q) : q \in Range(successful_quants) }
       IN  /\ dest_kind = "dir"
           /\ dest_files \in { quantFiles \cup {f16_file}, quantFiles }
           /\ dest_files \cap cwd = {}

\* C3: the quantizer is invoked only after a converter invocation that
\* exited zero and left the f16 file on disk; when the conversion script is
\* absent, exits non-zero or leaves no file, the conversion returns no file,
\* the process exits with status 1 and nothing is quantized or relocated.
C3_QuantizeOnlyAfterConversion ==
  /\ runs # <<>>
       => (Len(conv) = 1 /\ conv[1].returncode = 0 /\ conv[1].exists)
  /\ LET acted == pc \notin CollectorPcs /\ (pc = "convert" => Ended)
         bad   == \/ convert_script \notin installed
                  \/ conv = <<>>
                  \/ conv[1].returncode # 0
                  \/ ~conv[1].exists
     IN  (acted /\ bad)
           => /\ ~Converted
              /\ pc = "convert" /\ ~running /\ exit_status = 1
              /\ runs = <<>>
              /\ dest_files = {}

\* C3 witness: the converter exited zero without leaving its file, and the
\* run ended in the conversion step.
C3_Witness ==
  /\ pc = "convert" /\ Ended
  /\ conv # <<>> /\ conv[1].returncode = 0 /\ ~conv[1].exists

\* C4: with the quantizer present, the invocations are the entries of the
\* selected list, in order, one each; an entry is in the succeeded list iff
\* its invocation exited zero and left its file, in the failed list otherwise;
\* when quantize_model returns, every entry has been invoked.
C4_OneInvocationPerEntry ==
  quantizer \in installed
    => /\ Len(runs) <= Len(selected_quants)
       /\ \A i \in 1..Len(runs) : runs[i].quant = selected_quants[i]
       /\ pc = "summary" => Len(runs) = Len(selected_quants)
       /\ successful_quants = QuantsOf(SelectSeq(runs, Succeeded))
       /\ failed_quants = QuantsOf(SelectSeq(runs, NotSucceeded))
       /\ Len(successful_quants) + Len(failed_quants) = Len(runs)

\* C4 witness: a list of three was quantized to the end, the first entry
\* failed with its file on disk and exit code non-zero, a later one succeeded.
C4_Witness ==
  /\ pc = "summary" /\ Len(selected_quants) = 3
  /\ runs[1].returncode # 0 /\ runs[1].exists
  /\ Succeeded(runs[2])
  /\ runs[3].returncode = 0 /\ ~runs[3].exists

\* C5: with the quantizer absent after a successful conversion, nothing is
\* quantized and the run still reaches the summary with no success, without
\* ending in an error.
C5_MissingQuantizerReachesSummary ==
  (Ended /\ Converted /\ quantizer \notin installed)
    => /\ runs = <<>>
       /\ summary.shown /\ summary.succeeded = <<>>
       /\ error = "none" /\ exit_status = 0

\* C6: a typed list with an unrecognized entry is rejected whole (nothing is
\* selected and the mode prompt comes next), and every profile of a returned
\* selection is one of the 12 recognized names.
C6_MixedListRejected ==
  /\ (last_prompt = "types" /\ HasUnrecognized(last_answer))
       => (pc = "ask_mode" /\ selected_quants = <<>>)
  /\ pc \notin CollectorPcs
       => (selected_quants # <<>> /\ Range(selected_quants) \subseteq TypeSet)

\* C6 witness: a list holding a recognized and an unrecognized entry was
\* typed, and the collector is back at the mode prompt.
C6_Witness ==
  /\ last_prompt = "types"
  /\ HasUnrecognized(last_answer) /\ HasRecognized(last_answer)
  /\ pc = "ask_mode" /\ running

\* C7: the succeeded and the failed list of quantize_model share no profile.
C7_ListsDisjoint ==
  Range(successful_quants) \cap Range(failed_quants) = {}

\* C8: when the destination directory cannot be created (a file is in its
\* place), the files stay in the working directory and the run that reached
\* result organization still finishes with exit status 0.
C8_OrganizerFailureNotFatal ==
  (Ended /\ pc = "summary" /\ dest_kind = "file")
    => /\ exit_status = 0
       /\ f16_file \in cwd
       /\ dest_files = {}

\* C10: the collector returns only a non-empty model path that existed or
\* was confirmed with "y", and a non-empty selection; an empty path, a
\* declined confirmation, an unrecognized mode and a rejected list lead back
\* to a prompt.
C10_ReturnedConfiguration ==
  /\ pc \notin PathPcs
       => (model_path # <<>> /\ (path_existed \/ confirm = <<"y">>))
  /\ pc \notin CollectorPcs => Len(selected_quants) > 0
  /\ (last_prompt = "path" /\ Strip(last_answer) = <<>>) => pc = "ask_path"
  /\ (last_prompt = "confirm" /\ Lower(Strip(last_answer)) # <<"y">>)
       => pc = "ask_path"
  /\ (last_prompt = "mode" /\ Strip(last_answer) \notin {<<>>, <<"1">>, <<"2">>})
       => pc = "ask_mode"
  /\ (last_prompt = "types" /\ HasUnrecognized(last_answer)) => pc = "ask_mode"

\* C10 witness: a path that does not exist was confirmed with "Y " and the
\* collector returned a configuration with it.
C10_Witness ==
  /\ pc = "convert" /\ running
  /\ ~path_existed /\ confirm = <<"y">> /\ model_path = <<"x">>
  /\ Len(selected_quants) = 2

====
